---- MODULE Spec2Model ----
(***************************************************************************)
(* Model of the build-time data scripts of mojahrvatska.com.hr:            *)
(*   - fetch-wiki-data.mjs   (Wikidata + Wikipedia enrichment, main())     *)
(*   - generate-search-index.mjs (search index and compare data)           *)
(*                                                                         *)
(* Strings are sequences of tokens (a token is a word, a blank or a piece  *)
(* of punctuation), so that String.prototype.replace is a search for a     *)
(* sub-sequence and not an identity.  A nullable value is a sequence of    *)
(* length at most one: <<>> is null/undefined, <<v>> is the value v.       *)
(* Decimal numbers are kept in hundredths (43.7 is 4370).                  *)
(***************************************************************************)
EXTENDS Integers, Sequences, FiniteSets, TLC

VARIABLES
  zupanije, gradovi, opcine,   \* the three parsed data tables
  pc,                          \* position of main(): "start", "awaitAll", "awaitWiki", "awaitAlt", "sleep50", "sleep100", "done"
  sparql,                      \* per SPARQL query: "idle", "pending", "ok", "fail"
  sparqlRows,                  \* per SPARQL query: the bindings its promise resolved with
  issued,                      \* per SPARQL query: how many times fetch was called for it
  wikidataMap,                 \* name -> Wikidata record
  enrichment,                  \* slug -> enrichment entry
  i,                           \* loop index of main (1-based)
  wikiCount, wikiMiss,         \* the two counters of main
  wikiPending,                 \* Wikipedia requests sent and not yet answered
  wikiLog,                     \* titles requested from Wikipedia for location i, in order
  wikiAnswers,                 \* what each of those requests returned, in order
  lookups,                     \* keys of wikidataMap read for location i, in order
  output,                      \* content of wiki-enrichment.json, <<>> until written
  gcArgs, gcResult,            \* generateConclusions: its arguments and its return value
  searchIndex, compareData,    \* generate-search-index: the two arrays
  written                      \* generate-search-index: files written so far

vars == <<zupanije, gradovi, opcine, pc, sparql, sparqlRows, issued, wikidataMap,
          enrichment, i, wikiCount, wikiMiss, wikiPending, wikiLog, wikiAnswers,
          lookups, output, gcArgs, gcResult, searchIndex, compareData, written>>

----------------------------------------------------------------------------
(* Bounds of the model *)

MaxLocations == 2

----------------------------------------------------------------------------
(* Nullable values and generic helpers *)

Null == <<>>

Some(v) == <<v>>

Min(a, b) == IF a < b THEN a ELSE b

Has(map, key) == key \in DOMAIN map

\* Array.prototype.slice(start, end) with 0 <= start, 0 <= end (0-based, end exclusive)
Slice(arr, start, end) ==
  SubSeq(arr, start + 1, Min(end, Len(arr)))

\* Array.prototype.includes
Includes(arr, v) == \E k \in 1..Len(arr) : arr[k] = v

\* String.prototype.indexOf: the first position (1-based) where pat occurs in s, 0 when none
IndexOf(s, pat) ==
  LET hits == {k \in 1..(Len(s) - Len(pat) + 1) : SubSeq(s, k, k + Len(pat) - 1) = pat}
  IN IF hits = {} THEN 0 ELSE CHOOSE k \in hits : \A j \in hits : k <= j

\* String.prototype.replace(pat, rep) with a string pattern: the first occurrence only
ReplaceFirst(s, pat, rep) ==
  LET k == IndexOf(s, pat)
  IN IF k = 0 THEN s
     ELSE SubSeq(s, 1, k - 1) \o rep \o SubSeq(s, k + Len(pat), Len(s))

\* String.prototype.replace(/ /g, '_'): every blank token
ReplaceBlanks(s) == [k \in 1..Len(s) |-> IF s[k] = " " THEN "_" ELSE s[k]]

\* parseFloat of a string of decimal digits (given as the sequence of its digits)
RECURSIVE parseFloat(_)
parseFloat(digits) ==
  IF digits = <<>> THEN 0
  ELSE 10 * parseFloat(SubSeq(digits, 1, Len(digits) - 1)) + digits[Len(digits)]

\* Round x / unit to the nearest integer, a tie going away from zero
RoundDiv(x, unit) ==
  IF x >= 0 THEN (2 * x + unit) \div (2 * unit)
  ELSE 0 - ((unit - 2 * x) \div (2 * unit))

\* Number.prototype.toFixed(digits) of a value kept in hundredths, digits \in {0, 1}:
\* the result is the printed number in units of 10^-digits (43.75 prints "43.8": 438)
toFixed(hundredths, digits) ==
  IF digits = 1 THEN RoundDiv(hundredths, 10) ELSE RoundDiv(hundredths, 100)

\* (a / b * 100).toFixed(0) for integers a >= 0, b > 0
PercentFixed0(a, b) == (200 * a + b) \div (2 * b)

----------------------------------------------------------------------------
(* String constants of the scripts, as token sequences *)

SuffixZupanija == <<" ", "zupanija">>          \* ' županija'

PrefixGrad == <<"Grad", " ">>                  \* 'Grad '

GradZagreb == <<"Grad", " ", "Zagreb">>        \* 'Grad Zagreb'

GradaZagreba == <<"Grada", " ", "Zagreba">>    \* 'Grada Zagreba'

EZupanije == <<"e", " ", "zupanije">>          \* 'e županije'

AltOpcina == <<" ", "(opcina)">>               \* ' (općina)'

AltGrad == <<" ", "(grad)">>                   \* ' (grad)'

----------------------------------------------------------------------------
(* generateConclusions *)

nationalDensity == 6840

nationalAvgAge == 4370

nationalUniversityPct == 1840

nationalChange == -964

nationalAge014 == 1420

MaxConclusions == 5

Sentence(rule, variant, nums, text) ==
  [rule |-> rule, variant |-> variant, nums |-> nums, text |-> text]

\* 1. Population change verdict: always exactly one sentence
ChangeVerdict(location) ==
  LET change == location.change_pct
      c == toFixed(change, 1)
  IN IF change > 500 THEN <<Sentence("change", "znacajan rast", <<c, toFixed(nationalChange, 1)>>, <<>>)>>
     ELSE IF change > 0 THEN <<Sentence("change", "blagi rast", <<c>>, <<>>)>>
     ELSE IF change > -500 THEN <<Sentence("change", "umjereni pad", <<c, toFixed(nationalChange, 1)>>, <<>>)>>
     ELSE IF change > -1500 THEN <<Sentence("change", "znacajan pad", <<c>>, <<>>)>>
     ELSE <<Sentence("change", "drastican pad", <<c>>, <<>>)>>

\* 2. Density comparison (68.4 * 1.5 and 68.4 * 0.5 are compared after scaling both sides by 10)
DensityComparison(location, type) ==
  LET density == location.density
      d == toFixed(density, 0)
  IN IF type = "zupanija" THEN <<>>
     ELSE IF density > nationalDensity * 5 THEN <<Sentence("density", "znatno iznad", <<d, nationalDensity>>, <<>>)>>
     ELSE IF 10 * density > nationalDensity * 15 THEN <<Sentence("density", "iznad", <<d, nationalDensity>>, <<>>)>>
     ELSE IF 10 * density < nationalDensity * 5 THEN <<Sentence("density", "ispod", <<d, nationalDensity>>, <<>>)>>
     ELSE <<>>

\* 3. Age structure assessment
AgeStructure(location) ==
  LET avgAge == location.avg_age
      a == toFixed(avgAge, 1)
  IN IF avgAge > 4800 THEN <<Sentence("age", "izrazito staro", <<a, nationalAvgAge>>, <<>>)>>
     ELSE IF avgAge > nationalAvgAge + 200 THEN <<Sentence("age", "iznad", <<a, nationalAvgAge>>, <<>>)>>
     ELSE IF avgAge < nationalAvgAge - 300 THEN <<Sentence("age", "mladje", <<a, nationalAvgAge>>, <<>>)>>
     ELSE <<>>

\* 4. Youth vs elderly ratio: two independent tests
YouthShare(location) ==
  IF location.age_0_14_pct > 1600
  THEN <<Sentence("youth", "iznad", <<toFixed(location.age_0_14_pct, 1), nationalAge014>>, <<>>)>>
  ELSE <<>>

ElderlyShare(location) ==
  IF location.age_65_plus_pct > 2800
  THEN <<Sentence("elderly", "znatno iznad", <<toFixed(location.age_65_plus_pct, 1)>>, <<>>)>>
  ELSE <<>>

\* 5. Education (education_university_pct != null)
Education(location) ==
  IF location.education_university_pct = Null THEN <<>>
  ELSE LET uniPct == location.education_university_pct[1]
       IN IF uniPct > 2500 THEN <<Sentence("education", "znatno iznad", <<toFixed(uniPct, 1), nationalUniversityPct>>, <<>>)>>
          ELSE IF uniPct < 1000 THEN <<Sentence("education", "ispod", <<toFixed(uniPct, 1), nationalUniversityPct>>, <<>>)>>
          ELSE <<>>

\* zupanije.find(z => z.id === id): <<>> when none, else <<the first match>>
FindCounty(zs, id) ==
  LET hits == {k \in 1..Len(zs) : zs[k].id = id}
  IN IF hits = {} THEN Null ELSE Some(zs[CHOOSE k \in hits : \A j \in hits : k <= j])

\* 6. County-level comparison (county_id 0 stands for a missing county_id)
CountyComparison(location, type, zs) ==
  IF type # "zupanija" /\ location.county_id # 0
  THEN LET found == FindCounty(zs, location.county_id)
       IN IF found = Null THEN <<>>
          ELSE LET county == found[1]
                   pop == location.population_2021
               IN IF 10 * pop > county.population_2021 * 3
                  THEN <<Sentence("county", "najvece urbano srediste",
                                  <<PercentFixed0(pop, county.population_2021)>>,
                                  location.name \o <<"|">> \o
                                  ReplaceFirst(ReplaceFirst(county.name, SuffixZupanija, EZupanije),
                                               GradZagreb, GradaZagreba))>>
                  ELSE <<>>
  ELSE <<>>

\* 7. Population size context
SizeContext(location, type) ==
  LET pop == location.population_2021
      forOpcina == IF type = "opcina"
                   THEN IF pop < 500 THEN <<Sentence("size", "najmanja opcina", <<>>, <<>>)>>
                        ELSE IF pop > 10000 THEN <<Sentence("size", "veca opcina", <<>>, <<>>)>>
                        ELSE <<>>
                   ELSE <<>>
      forGrad == IF type = "grad"
                 THEN IF pop > 100000 THEN <<Sentence("size", "najveci grad", <<>>, location.name)>>
                      ELSE IF pop < 3000 THEN <<Sentence("size", "najmanji grad", <<>>, location.name)>>
                      ELSE <<>>
                 ELSE <<>>
  IN forOpcina \o forGrad

\* the conclusions array just before the return statement
PushedConclusions(location, type, zs) ==
  ChangeVerdict(location) \o DensityComparison(location, type) \o AgeStructure(location)
  \o YouthShare(location) \o ElderlyShare(location) \o Education(location)
  \o CountyComparison(location, type, zs) \o SizeContext(location, type)

\* generateConclusions with the final slice left out
generateConclusionsUncapped(location, type, zs, gs, os) ==
  PushedConclusions(location, type, zs)

generateConclusions(location, type, zs, gs, os) ==
  Slice(PushedConclusions(location, type, zs), 0, MaxConclusions)

----------------------------------------------------------------------------
(* The data tables (src/data/*.ts): the records the model draws its inputs from *)

Location(id, name, slug, type, county_id, county_name, pop, change, density, avg_age, a65, a014, uni) ==
  [id |-> id, name |-> name, slug |-> slug, type |-> type, county_id |-> county_id,
   county_name |-> county_name, population_2021 |-> pop, change_pct |-> change,
   density |-> density, avg_age |-> avg_age, age_65_plus_pct |-> a65,
   age_0_14_pct |-> a014, education_university_pct |-> uni,
   male_pct |-> 4800, female_pct |-> 5200]

NameSplitska == <<"Splitsko-dalmatinska", " ", "zupanija">>

ZupanijaSplitska ==
  Location(17, NameSplitska, "splitsko-dalmatinska", "undefined", 0, <<>>,
           423407, -687, 9330, 4310, 2190, 1480, Null)

ZupanijaZagreb ==
  Location(21, GradZagreb, "grad-zagreb", "undefined", 0, <<>>,
           767131, -290, 119680, 4250, 2010, 1470, Null)

GradSplit ==
  Location(0, <<"Split">>, "split", "grad", 17, NameSplitska,
           160577, -985, 202300, 4410, 2320, 1390, Some(3050))

GradGradZagreb ==
  Location(0, GradZagreb, "zagreb", "grad", 21, GradZagreb,
           767131, -290, 119680, 4250, 2010, 1470, Some(3520))

OpcinaBol ==
  Location(0, <<"Bol">>, "bol", "opcina", 17, NameSplitska,
           1678, 276, 7300, 4520, 2510, 1320, Some(2210))

ZupanijaPool == {ZupanijaSplitska, ZupanijaZagreb}

GradPool == {GradSplit, GradGradZagreb}

OpcinaPool == {OpcinaBol}

\* every sequence over S of length at most n
SeqsUpTo(S, n) == UNION {[1..k -> S] : k \in 0..n}

\* allLocations: counties get type 'zupanija', cities and municipalities keep theirs
AllLocations(zs, gs, os) ==
  [k \in 1..Len(zs) |-> [zs[k] EXCEPT !.type = "zupanija"]] \o gs \o os

----------------------------------------------------------------------------
(* Wikidata: fetchSparql and processWikidataResults *)

SparqlQueries == {"settlements", "counties", "cities", "municipalities"}

Row(label, coa, photo, postal, elevation, website, plate, sister) ==
  [itemLabel |-> label, coatOfArms |-> coa, photo |-> photo, postalCode |-> postal,
   elevation |-> elevation, website |-> website, licensePlate |-> plate,
   sisterCityLabel |-> sister]

\* what the Wikidata endpoint may answer to each query
SparqlAnswers(q) ==
  CASE q = "settlements" ->
         { <<>>,
           << Row(Some(<<"Split">>), Null, Some("split.jpg"), Some("21000"), Some(<<0>>), Null, Null, Some("Ancona")),
              Row(Some(<<"Split">>), Some("split.svg"), Some("riva.jpg"), Null, Some(<<1, 2>>), Null, Null, Some("Trst")),
              Row(Null, Some("x.svg"), Null, Null, Null, Null, Null, Null),
              Row(Some(<<"Split">>), Null, Null, Null, Some(<<5>>), Null, Null, Some("Ancona")) >> }
    [] q = "counties" ->
         { <<>>,
           << Row(Some(<<"Splitsko-dalmatinska">>), Some("sdz.svg"), Null, Null, Null, Some("dalmacija.hr"), Some("ST"), Null) >>,
           << Row(Some(<<"Splitsko-dalmatinska">>), Some("sdz.svg"), Null, Null, Null, Some("dalmacija.hr"), Some("ST"), Null),
              Row(Some(GradZagreb), Some("zg-county.svg"), Null, Null, Null, Null, Some("ZG"), Null) >> }
    [] q = "cities" ->
         { <<>>,
           << Row(Some(<<"Zagreb">>), Some("zg-city.svg"), Null, Some("10000"), Some(<<1, 5, 8>>), Some("zagreb.hr"), Null, Some("Mainz")) >> }
    [] q = "municipalities" ->
         { <<>>,
           << Row(Some(<<"Bol">>), Some("bol.svg"), Null, Some("21420"), Null, Null, Null, Null) >> }

\* fetchSparql: the promise rejects when fetch throws, when the status is not ok,
\* or when the body is not the expected JSON; otherwise it resolves with the bindings
fetchSparqlResolves(outcome) == outcome = "ok"

WikidataRecord(coa, photo, postal, elevation, website, plate, sisters) ==
  [coatOfArms |-> coa, photo |-> photo, postalCode |-> postal, elevation |-> elevation,
   officialWebsite |-> website, licensePlate |-> plate, sisterCities |-> sisters]

\* JavaScript truthiness of a nullable number: neither null nor 0
TruthyNumber(opt) == opt # Null /\ opt[1] # 0

\* one pass of the loop body of processWikidataResults
ProcessRow(byName, row) ==
  IF row.itemLabel = Null THEN byName
  ELSE LET name == row.itemLabel[1]
           entry == IF Has(byName, name) THEN byName[name]
                    ELSE WikidataRecord(Null, Null, Null, Null, Null, Null, <<>>)
           new == WikidataRecord(
                    IF row.coatOfArms # Null /\ entry.coatOfArms = Null THEN row.coatOfArms ELSE entry.coatOfArms,
                    IF row.photo # Null /\ entry.photo = Null THEN row.photo ELSE entry.photo,
                    IF row.postalCode # Null /\ entry.postalCode = Null THEN row.postalCode ELSE entry.postalCode,
                    IF row.elevation # Null /\ ~TruthyNumber(entry.elevation)
                      THEN Some(parseFloat(row.elevation[1])) ELSE entry.elevation,
                    IF row.website # Null /\ entry.officialWebsite = Null THEN row.website ELSE entry.officialWebsite,
                    IF row.licensePlate # Null /\ entry.licensePlate = Null THEN row.licensePlate ELSE entry.licensePlate,
                    IF row.sisterCityLabel # Null /\ ~Includes(entry.sisterCities, row.sisterCityLabel[1])
                      THEN Append(entry.sisterCities, row.sisterCityLabel[1]) ELSE entry.sisterCities)
       IN [k \in DOMAIN byName \cup {name} |-> IF k = name THEN new ELSE byName[k]]

RECURSIVE ProcessRows(_, _)
ProcessRows(byName, bindings) ==
  IF bindings = <<>> THEN byName
  ELSE ProcessRows(ProcessRow(byName, Head(bindings)), Tail(bindings))

EmptyMap == [k \in {} |-> Null]

processWikidataResults(bindings) == ProcessRows(EmptyMap, bindings)

----------------------------------------------------------------------------
(* Wikipedia: fetchWikipediaSummary and getWikiTitle *)

\* the path of the request: encodeURIComponent(title.replace(/ /g, '_'))
WikiPath(title) == ReplaceBlanks(title)

\* what the Wikipedia REST API may hold for a page: extract and thumbnail.source;
\* an extract may be the empty string
WikiPages(title) ==
  { [extract |-> Some(<<"extract:">> \o WikiPath(title)), thumbnail |-> Some(<<"thumb:">> \o WikiPath(title))],
    [extract |-> Some(<<"extract:">> \o WikiPath(title)), thumbnail |-> Null],
    [extract |-> Some(<<>>), thumbnail |-> Null] }

WikiOutcomes == {"threw", "notok", "ok"}

\* x || null for a nullable string
OrNull(opt) == IF opt = Null \/ opt[1] = <<>> THEN Null ELSE opt

\* the value fetchWikipediaSummary resolves with: null, or {description, thumbnail}
fetchWikipediaSummary(outcome, data) ==
  IF outcome # "ok" THEN Null
  ELSE Some([description |-> OrNull(data.extract), thumbnail |-> OrNull(data.thumbnail)])

getWikiTitle(location) ==
  IF location.type = "zupanija" THEN location.name
  ELSE IF location.name = GradZagreb THEN <<"Zagreb">>
  ELSE location.name

----------------------------------------------------------------------------
(* main: matching the Wikidata record of a location *)

EmptyEntry ==
  [description |-> Null, thumbnail |-> Null, coatOfArms |-> Null, photo |-> Null,
   postalCode |-> Null, elevation |-> Null, officialWebsite |-> Null,
   licensePlate |-> Null, sisterCities |-> <<>>, conclusions |-> <<>>]

CopyWikidata(entry, wd) ==
  [entry EXCEPT !.coatOfArms = wd.coatOfArms, !.photo = wd.photo,
                !.postalCode = wd.postalCode, !.elevation = wd.elevation,
                !.officialWebsite = wd.officialWebsite, !.licensePlate = wd.licensePlate,
                !.sisterCities = wd.sisterCities]

\* loc.name.replace(' županija', '').replace('Grad ', '')
ShortName(name) == ReplaceFirst(ReplaceFirst(name, SuffixZupanija, <<>>), PrefixGrad, <<>>)

\* TriesShortName with the test of the type left out: the stripped name is tried for every type
TriesShortNameAnyType(loc, map) == ~Has(map, loc.name)

\* if (!wd && loc.type === 'zupanija')
TriesShortName(loc, map) == ~Has(map, loc.name) /\ loc.type = "zupanija"

\* the keys of wikidataMap that main reads for loc, in order
WikidataLookups(loc, map) ==
  <<loc.name>> \o
  (IF TriesShortName(loc, map)
   THEN <<ShortName(loc.name)>> \o (IF Has(map, ShortName(loc.name)) THEN <<>> ELSE <<loc.name>>)
   ELSE <<>>)

\* the entry of loc after the two Wikidata matching blocks
MatchWikidata(loc, map) ==
  LET afterExact == IF Has(map, loc.name) THEN CopyWikidata(EmptyEntry, map[loc.name]) ELSE EmptyEntry
  IN IF TriesShortName(loc, map)
     THEN IF Has(map, ShortName(loc.name)) THEN CopyWikidata(afterExact, map[ShortName(loc.name)])
          ELSE IF Has(map, loc.name) THEN CopyWikidata(afterExact, map[loc.name])
          ELSE afterExact
     ELSE afterExact

\* description and thumbnail taken from a summary
WithSummary(entry, wiki) ==
  [entry EXCEPT !.description = wiki.description, !.thumbnail = wiki.thumbnail]

\* the clean-up loop: null and empty fields are deleted
KeptFields(e) ==
  {f \in {"sisterCities", "conclusions"} : e[f] # <<>>}
  \cup {f \in {"coatOfArms", "photo", "thumbnail", "postalCode", "officialWebsite",
                "licensePlate", "description", "elevation"} : e[f] # Null}

CleanUp(enr) == [slug \in DOMAIN enr |-> [f \in KeptFields(enr[slug]) |-> enr[slug][f]]]

\* AltForGrad with the test of the description inverted
AltForGradInverted(loc, entry) == loc.type = "grad" /\ entry.description # Null

\* IssuedByPromiseAll with a copy-paste slip: SPARQL_QUERY is passed twice and
\* SPARQL_MUNICIPALITIES never
IssuedSettlementsTwice(iss) ==
  [q \in SparqlQueries |->
     iss[q] + (IF q = "settlements" THEN 2 ELSE IF q = "municipalities" THEN 0 ELSE 1)]

\* if (loc.type === 'opcina') inside the miss branch
AltForOpcina(loc) == loc.type = "opcina"

\* if (loc.type === 'grad' && !enrichment[slug].description) inside the miss branch
AltForGrad(loc, entry) == loc.type = "grad" /\ entry.description = Null

\* the first argument of Promise.all: each query is passed to fetchSparql once
IssuedByPromiseAll(iss) == [q \in SparqlQueries |-> iss[q] + 1]

----------------------------------------------------------------------------
(* main: the run of fetch-wiki-data.mjs, one action per stretch between awaits *)

Locs == AllLocations(zupanije, gradovi, opcine)

Loc == Locs[i]

Entry == enrichment[Loc.slug]

InLoop == pc \in {"awaitWiki", "awaitAltOpcina", "awaitAltGrad", "sleep50Opcina", "sleep50Grad", "sleep100"}

SetEntry(enr, slug, e) == [s \in DOMAIN enr \cup {slug} |-> IF s = slug THEN e ELSE enr[s]]

WithConclusions(e, loc) ==
  [e EXCEPT !.conclusions = generateConclusions(loc, loc.type, zupanije, gradovi, opcine)]

otherVars == <<zupanije, gradovi, opcine, gcArgs, gcResult, searchIndex, compareData, written>>

\* top of the loop body for location k up to the first request to Wikipedia
BeginIteration(k, enr, map) ==
  LET loc == Locs[k]
  IN /\ i' = k
     /\ enrichment' = SetEntry(enr, loc.slug, MatchWikidata(loc, map))
     /\ lookups' = WikidataLookups(loc, map)
     /\ wikiLog' = <<getWikiTitle(loc)>>
     /\ wikiAnswers' = <<>>
     /\ wikiPending' = wikiPending + 1
     /\ pc' = "awaitWiki"
     /\ output' = output

\* after the loop: clean-up and writeFileSync
Finish(k, enr) ==
  /\ i' = k
  /\ enrichment' = CleanUp(enr)
  /\ output' = Some(CleanUp(enr))
  /\ pc' = "done"
  /\ UNCHANGED <<lookups, wikiLog, wikiAnswers, wikiPending>>

\* for (let i = ...; i < allLocations.length; ...)
EnterLoop(k, enr, map) ==
  IF k <= Len(Locs) THEN BeginIteration(k, enr, map) ELSE Finish(k, enr)

\* main() up to await Promise.all([...]): the four fetchSparql calls each run to their fetch
Start ==
  /\ pc = "start"
  /\ pc' = "awaitAll"
  /\ sparql' = [q \in SparqlQueries |-> "pending"]
  /\ issued' = IssuedByPromiseAll(issued)
  /\ UNCHANGED <<sparqlRows, wikidataMap, enrichment, i, wikiCount, wikiMiss, wikiPending,
                 wikiLog, wikiAnswers, lookups, output, otherVars>>

\* one fetchSparql promise settles; Promise.all rejects on the first failure and
\* resolves when the last of the four has resolved, and main goes on from there
SparqlAnswer(q, outcome, rows) ==
  /\ sparql[q] = "pending"
  /\ sparql' = [sparql EXCEPT ![q] = IF fetchSparqlResolves(outcome) THEN "ok" ELSE "fail"]
  /\ UNCHANGED <<issued, wikiCount, wikiMiss, otherVars>>
  /\ IF pc # "awaitAll"
     THEN UNCHANGED <<pc, sparqlRows, wikidataMap, enrichment, i, wikiPending, wikiLog,
                      wikiAnswers, lookups, output>>
     ELSE IF ~fetchSparqlResolves(outcome)
     THEN /\ wikidataMap' = EmptyMap
          /\ sparqlRows' = [x \in SparqlQueries |-> <<>>]
          /\ EnterLoop(1, enrichment, EmptyMap)
     ELSE LET got == [sparqlRows EXCEPT ![q] = rows]
              allBindings == got["settlements"] \o got["counties"] \o got["cities"] \o got["municipalities"]
          IN IF \A x \in SparqlQueries : sparql'[x] = "ok"
             THEN /\ wikidataMap' = processWikidataResults(allBindings)
                  /\ sparqlRows' = [x \in SparqlQueries |-> <<>>]
                  /\ EnterLoop(1, enrichment, processWikidataResults(allBindings))
             ELSE /\ sparqlRows' = got
                  /\ UNCHANGED <<pc, wikidataMap, enrichment, i, wikiPending, wikiLog,
                                 wikiAnswers, lookups, output>>

\* the request for the plain title is answered
WikiAnswer(outcome, data) ==
  /\ pc = "awaitWiki"
  /\ LET wiki == fetchWikipediaSummary(outcome, data)
     IN /\ wikiAnswers' = Append(wikiAnswers, wiki)
        /\ IF wiki # Null
           THEN /\ enrichment' = SetEntry(enrichment, Loc.slug, WithConclusions(WithSummary(Entry, wiki[1]), Loc))
                /\ wikiCount' = wikiCount + 1
                /\ wikiPending' = wikiPending - 1
                /\ pc' = "sleep100"
                /\ UNCHANGED <<wikiMiss, wikiLog>>
           ELSE /\ wikiMiss' = wikiMiss + 1
                /\ wikiCount' = wikiCount
                /\ IF AltForOpcina(Loc)
                   THEN /\ wikiLog' = Append(wikiLog, Loc.name \o AltOpcina)
                        /\ wikiPending' = wikiPending
                        /\ pc' = "awaitAltOpcina"
                        /\ UNCHANGED enrichment
                   ELSE IF AltForGrad(Loc, Entry)
                   THEN /\ wikiLog' = Append(wikiLog, Loc.name \o AltGrad)
                        /\ wikiPending' = wikiPending
                        /\ pc' = "awaitAltGrad"
                        /\ UNCHANGED enrichment
                   ELSE /\ enrichment' = SetEntry(enrichment, Loc.slug, WithConclusions(Entry, Loc))
                        /\ wikiPending' = wikiPending - 1
                        /\ pc' = "sleep100"
                        /\ UNCHANGED wikiLog
  /\ UNCHANGED <<sparql, sparqlRows, issued, wikidataMap, i, lookups, output, otherVars>>

\* the request for the alternate title is answered; sleep(50) follows
AltAnswer(outcome, data) ==
  /\ pc \in {"awaitAltOpcina", "awaitAltGrad"}
  /\ LET wiki2 == fetchWikipediaSummary(outcome, data)
     IN /\ wikiAnswers' = Append(wikiAnswers, wiki2)
        /\ IF wiki2 # Null
           THEN /\ enrichment' = SetEntry(enrichment, Loc.slug, WithSummary(Entry, wiki2[1]))
                /\ wikiCount' = wikiCount + 1
                /\ wikiMiss' = wikiMiss - 1
           ELSE UNCHANGED <<enrichment, wikiCount, wikiMiss>>
  /\ wikiPending' = wikiPending - 1
  /\ pc' = IF pc = "awaitAltOpcina" THEN "sleep50Opcina" ELSE "sleep50Grad"
  /\ UNCHANGED <<sparql, sparqlRows, issued, wikidataMap, i, wikiLog, lookups, output, otherVars>>

\* sleep(50) is over: after the municipality block the city block is tested,
\* then the conclusions are generated and sleep(100) starts
Sleep50Done ==
  /\ pc \in {"sleep50Opcina", "sleep50Grad"}
  /\ IF pc = "sleep50Opcina" /\ AltForGrad(Loc, Entry)
     THEN /\ wikiLog' = Append(wikiLog, Loc.name \o AltGrad)
          /\ wikiPending' = wikiPending + 1
          /\ pc' = "awaitAltGrad"
          /\ UNCHANGED enrichment
     ELSE /\ enrichment' = SetEntry(enrichment, Loc.slug, WithConclusions(Entry, Loc))
          /\ pc' = "sleep100"
          /\ UNCHANGED <<wikiLog, wikiPending>>
  /\ UNCHANGED <<sparql, sparqlRows, issued, wikidataMap, i, wikiCount, wikiMiss,
                 wikiAnswers, lookups, output, otherVars>>

\* sleep(100) is over: the next location, or the end of the loop
Sleep100Done ==
  /\ pc = "sleep100"
  /\ EnterLoop(i + 1, enrichment, wikidataMap)
  /\ UNCHANGED <<sparql, sparqlRows, issued, wikidataMap, wikiCount, wikiMiss, otherVars>>

NoRepeat(seq) == \A a, b \in 1..Len(seq) : a # b => seq[a] # seq[b]

InitMain ==
  /\ zupanije \in SeqsUpTo(ZupanijaPool, MaxLocations)
  /\ gradovi \in SeqsUpTo(GradPool, MaxLocations)
  /\ opcine \in SeqsUpTo(OpcinaPool, MaxLocations)
  /\ Len(zupanije) + Len(gradovi) + Len(opcine) <= MaxLocations
  /\ NoRepeat(zupanije) /\ NoRepeat(gradovi) /\ NoRepeat(opcine)
  /\ pc = "start"
  /\ sparql = [q \in SparqlQueries |-> "idle"]
  /\ sparqlRows = [q \in SparqlQueries |-> <<>>]
  /\ issued = [q \in SparqlQueries |-> 0]
  /\ wikidataMap = EmptyMap
  /\ enrichment = EmptyMap
  /\ i = 0
  /\ wikiCount = 0
  /\ wikiMiss = 0
  /\ wikiPending = 0
  /\ wikiLog = <<>>
  /\ wikiAnswers = <<>>
  /\ lookups = <<>>
  /\ output = Null
  /\ gcArgs = Null
  /\ gcResult = Null
  /\ searchIndex = <<>>
  /\ compareData = <<>>
  /\ written = <<>>

SparqlOutcomes == {"threw", "notok", "badjson", "ok"}

SparqlSettles ==
  \E q \in SparqlQueries, outcome \in SparqlOutcomes :
    \E rows \in SparqlAnswers(q) : SparqlAnswer(q, outcome, rows)

PlainAnswered ==
  /\ pc = "awaitWiki"
  /\ \E outcome \in WikiOutcomes :
       \E data \in WikiPages(wikiLog[Len(wikiLog)]) : WikiAnswer(outcome, data)

AltAnswered ==
  /\ pc \in {"awaitAltOpcina", "awaitAltGrad"}
  /\ \E outcome \in WikiOutcomes :
       \E data \in WikiPages(wikiLog[Len(wikiLog)]) : AltAnswer(outcome, data)

NextMain ==
  \/ Start
  \/ SparqlSettles
  \/ PlainAnswered
  \/ AltAnswered
  \/ Sleep50Done
  \/ Sleep100Done

SpecMain == InitMain /\ [][NextMain]_vars

----------------------------------------------------------------------------
(* generateConclusions on its own: the census figures are drawn from values on
   both sides of every threshold *)

GcLocations ==
  { Location(0, <<"Split">>, "split", type, county_id, NameSplitska,
             pop, change, density, avg_age, a65, a014, uni) :
      type \in {"zupanija", "grad", "opcina"},
      county_id \in {0, 17, 99},
      pop \in {320, 1678, 12500, 160577},
      change \in {620, 130, -290, -985, -2210},
      density \in {202300, 11968, 1250},
      avg_age \in {4950, 4610, 3990},
      a65 \in {3010, 2190},
      a014 \in {1720, 1390},
      uni \in {Null, Some(3050), Some(760)} }

InitConclusions ==
  /\ zupanije = <<ZupanijaSplitska, ZupanijaZagreb>>
  /\ gradovi = <<GradSplit>>
  /\ opcine = <<OpcinaBol>>
  /\ gcArgs \in {Some(loc) : loc \in GcLocations}
  /\ gcResult = Null
  /\ pc = "start"
  /\ sparql = [q \in SparqlQueries |-> "idle"]
  /\ sparqlRows = [q \in SparqlQueries |-> <<>>]
  /\ issued = [q \in SparqlQueries |-> 0]
  /\ wikidataMap = EmptyMap
  /\ enrichment = EmptyMap
  /\ i = 0
  /\ wikiCount = 0
  /\ wikiMiss = 0
  /\ wikiPending = 0
  /\ wikiLog = <<>>
  /\ wikiAnswers = <<>>
  /\ lookups = <<>>
  /\ output = Null
  /\ searchIndex = <<>>
  /\ compareData = <<>>
  /\ written = <<>>

\* the call generateConclusions(loc, loc.type, zupanije, gradovi, opcine)
CallGenerateConclusions ==
  /\ gcArgs # Null
  /\ gcResult = Null
  /\ gcResult' = Some(generateConclusions(gcArgs[1], gcArgs[1].type, zupanije, gradovi, opcine))
  /\ UNCHANGED <<zupanije, gradovi, opcine, pc, sparql, sparqlRows, issued, wikidataMap,
                 enrichment, i, wikiCount, wikiMiss, wikiPending, wikiLog, wikiAnswers,
                 lookups, output, gcArgs, searchIndex, compareData, written>>

NextConclusions == CallGenerateConclusions

SpecConclusions == InitConclusions /\ [][NextConclusions]_vars

----------------------------------------------------------------------------
(* generate-search-index.mjs *)

MaxTable == 2

SearchEntry(name, slug, type, county, pop) ==
  [name |-> name, slug |-> slug, type |-> type, county |-> county, pop |-> pop]

\* zupanije.map(z => ({ name, slug, type: 'zupanija', county: '', pop }))
SearchOfZupanije(zs) ==
  [k \in 1..Len(zs) |-> SearchEntry(zs[k].name, zs[k].slug, "zupanija", <<>>, zs[k].population_2021)]

\* gradovi.map(g => ({ name, slug, type: 'grad', county: g.county_name, pop }))
SearchOfGradovi(gs) ==
  [k \in 1..Len(gs) |-> SearchEntry(gs[k].name, gs[k].slug, "grad", gs[k].county_name, gs[k].population_2021)]

\* opcine.map(o => ({ name, slug, type: 'opcina', county: o.county_name, pop }))
SearchOfOpcine(os) ==
  [k \in 1..Len(os) |-> SearchEntry(os[k].name, os[k].slug, "opcina", os[k].county_name, os[k].population_2021)]

\* BuildSearchIndex with the last two spreads swapped: municipalities before cities
BuildSearchIndexOpcineFirst(zs, gs, os) ==
  SearchOfZupanije(zs) \o SearchOfOpcine(os) \o SearchOfGradovi(gs)

BuildSearchIndex(zs, gs, os) ==
  SearchOfZupanije(zs) \o SearchOfGradovi(gs) \o SearchOfOpcine(os)

\* the object literal of compareData for one city or municipality
CompareEntry(r) ==
  [name |-> r.name, slug |-> r.slug, type |-> r.type, county_name |-> r.county_name,
   population_2021 |-> r.population_2021, change_pct |-> r.change_pct,
   density |-> r.density, avg_age |-> r.avg_age,
   education_university_pct |-> r.education_university_pct,
   male_pct |-> r.male_pct, female_pct |-> r.female_pct]

BuildCompareData(gs, os) ==
  [k \in 1..Len(gs) |-> CompareEntry(gs[k])] \o [k \in 1..Len(os) |-> CompareEntry(os[k])]

\* JSON.stringify of the search index: per entry its members as key/value pairs in
\* the order of the object literal
StringifySearch(index) ==
  [k \in 1..Len(index) |->
     << <<"name", index[k].name>>, <<"slug", index[k].slug>>, <<"type", index[k].type>>,
        <<"county", index[k].county>>, <<"pop", index[k].pop>> >>]

\* JSON.stringify of the compare data: a member whose value is undefined is left out
StringifyCompare(data) ==
  [k \in 1..Len(data) |->
     << <<"name", data[k].name>>, <<"slug", data[k].slug>>, <<"type", data[k].type>>,
        <<"county_name", data[k].county_name>>,
        <<"population_2021", data[k].population_2021>>, <<"change_pct", data[k].change_pct>>,
        <<"density", data[k].density>>, <<"avg_age", data[k].avg_age>> >>
     \o (IF data[k].education_university_pct = Null THEN <<>>
         ELSE << <<"education_university_pct", data[k].education_university_pct[1]>> >>)
     \o << <<"male_pct", data[k].male_pct>>, <<"female_pct", data[k].female_pct>> >>]

mainVars == <<pc, sparql, sparqlRows, issued, wikidataMap, enrichment, i, wikiCount,
              wikiMiss, wikiPending, wikiLog, wikiAnswers, lookups, output, gcArgs, gcResult>>

\* the two array literals are evaluated
BuildIndexes ==
  /\ written = <<>>
  /\ searchIndex = Null
  /\ searchIndex' = Some(BuildSearchIndex(zupanije, gradovi, opcine))
  /\ compareData' = Some(BuildCompareData(gradovi, opcine))
  /\ UNCHANGED <<zupanije, gradovi, opcine, written, mainVars>>

\* writeFileSync(public/search-index.json)
WriteSearchIndex ==
  /\ searchIndex # Null
  /\ written = <<>>
  /\ written' = <<[file |-> "public/search-index.json", content |-> StringifySearch(searchIndex[1])]>>
  /\ UNCHANGED <<zupanije, gradovi, opcine, searchIndex, compareData, mainVars>>

\* writeFileSync(public/locations-compare.json)
WriteCompareData ==
  /\ Len(written) = 1
  /\ written' = Append(written, [file |-> "public/locations-compare.json", content |-> StringifyCompare(compareData[1])])
  /\ UNCHANGED <<zupanije, gradovi, opcine, searchIndex, compareData, mainVars>>

InitIndex ==
  /\ zupanije \in SeqsUpTo(ZupanijaPool, MaxTable)
  /\ gradovi \in SeqsUpTo(GradPool, MaxTable)
  /\ opcine \in SeqsUpTo(OpcinaPool, MaxTable)
  /\ searchIndex = Null
  /\ compareData = Null
  /\ written = <<>>
  /\ pc = "start"
  /\ sparql = [q \in SparqlQueries |-> "idle"]
  /\ sparqlRows = [q \in SparqlQueries |-> <<>>]
  /\ issued = [q \in SparqlQueries |-> 0]
  /\ wikidataMap = EmptyMap
  /\ enrichment = EmptyMap
  /\ i = 0
  /\ wikiCount = 0
  /\ wikiMiss = 0
  /\ wikiPending = 0
  /\ wikiLog = <<>>
  /\ wikiAnswers = <<>>
  /\ lookups = <<>>
  /\ output = Null
  /\ gcArgs = Null
  /\ gcResult = Null

NextIndex == BuildIndexes \/ WriteSearchIndex \/ WriteCompareData

SpecIndex == InitIndex /\ [][NextIndex]_vars

----------------------------------------------------------------------------
(* Properties of main (checked under SpecMain) *)

WdFields(e) ==
  WikidataRecord(e.coatOfArms, e.photo, e.postalCode, e.elevation, e.officialWebsite,
                 e.licensePlate, e.sisterCities)

NoWikidata == WikidataRecord(Null, Null, Null, Null, Null, Null, <<>>)

\* C1: while location i is being processed, its Wikidata fields are those of the
\* record stored under its exact name whenever that key exists, and then no other
\* key has been read; when the exact name misses and the location is a county,
\* the stripped name is read next and its record is copied if present; when the
\* exact name misses and the location is a city or a municipality, no other key
\* is read and the entry holds no Wikidata field.
C1_ExactNameBeforeStrippedName ==
  InLoop =>
    LET name == Loc.name
        short == ShortName(name)
    IN /\ Len(lookups) >= 1 /\ lookups[1] = name
       /\ Has(wikidataMap, name) =>
            /\ WdFields(Entry) = wikidataMap[name]
            /\ lookups = <<name>>
       /\ (~Has(wikidataMap, name) /\ Loc.type = "zupanija") =>
            /\ Len(lookups) >= 2 /\ lookups[2] = short
            /\ Has(wikidataMap, short) => WdFields(Entry) = wikidataMap[short]
            /\ ~Has(wikidataMap, short) => WdFields(Entry) = NoWikidata
       /\ (~Has(wikidataMap, name) /\ Loc.type # "zupanija") =>
            /\ lookups = <<name>>
            /\ WdFields(Entry) = NoWikidata

\* the second of two counties is 'Grad Zagreb' with both 'Grad Zagreb' and 'Zagreb'
\* in the map and got the record of 'Grad Zagreb'; the first, 'Splitsko-dalmatinska
\* zupanija', missed by its exact name and got the record of 'Splitsko-dalmatinska'
C1_Witness ==
  /\ InLoop /\ i = 2
  /\ Len(zupanije) = 2 /\ zupanije[1].name = NameSplitska /\ zupanije[2].name = GradZagreb
  /\ Has(wikidataMap, GradZagreb) /\ Has(wikidataMap, <<"Zagreb">>)
  /\ ~Has(wikidataMap, NameSplitska) /\ Has(wikidataMap, <<"Splitsko-dalmatinska">>)
  /\ Entry.coatOfArms = Some("zg-county.svg")
  /\ enrichment["splitsko-dalmatinska"].coatOfArms = Some("sdz.svg")

\* C2: for the location being processed, the alternate title is requested only
\* after the plain title was answered; once the location is done, a city or a
\* municipality has an alternate request exactly when the plain request returned
\* no summary, that request is for '<name> (grad)' or '<name> (opcina)', a county
\* has none, a summary returned by the alternate request is what the entry's
\* description and thumbnail hold, and never more than two requests are made.
C2_AlternateTitleIffPlainMissed ==
  /\ Len(wikiLog) <= 2
  /\ pc = "awaitWiki" => (Len(wikiLog) = 1 /\ wikiAnswers = <<>>)
  /\ pc = "sleep100" =>
       /\ Len(wikiAnswers) = Len(wikiLog)
       /\ Loc.type = "zupanija" => Len(wikiLog) = 1
       /\ Loc.type \in {"grad", "opcina"} => (Len(wikiLog) = 2 <=> wikiAnswers[1] = Null)
       /\ Len(wikiLog) = 2 =>
            wikiLog[2] = Loc.name \o <<" ", IF Loc.type = "opcina" THEN "(opcina)" ELSE "(grad)">>
       /\ (Len(wikiLog) = 2 /\ wikiAnswers[2] # Null) =>
            /\ Entry.description = wikiAnswers[2][1].description
            /\ Entry.thumbnail = wikiAnswers[2][1].thumbnail

\* the city Split missed under 'Split' and was found under 'Split (grad)'
C2_Witness ==
  /\ pc = "sleep100"
  /\ Loc.type = "grad"
  /\ wikiLog = << <<"Split">>, <<"Split", " ", "(grad)">> >>
  /\ wikiAnswers[1] = Null
  /\ Entry.description = Some(<<"extract:", "Split", "_", "(grad)">>)
  /\ Entry.thumbnail = Some(<<"thumb:", "Split", "_", "(grad)">>)

Outstanding == Cardinality({q \in SparqlQueries : sparql[q] = "pending"}) + wikiPending

\* C3 as stated: never two external requests outstanding at the same time, and
\* each of the four SPARQL queries issued exactly once
C3_AsStated ==
  /\ Outstanding <= 1
  /\ pc # "start" => \A q \in SparqlQueries : issued[q] = 1

\* C3 as amended: never two Wikipedia requests outstanding at the same time, and
\* each of the four SPARQL queries is issued exactly once, all four by the first
\* step of main (so that they are outstanding together)
C3_WikipediaOneAtATimeSparqlOnce ==
  /\ wikiPending <= 1
  /\ pc = "start" => \A q \in SparqlQueries : issued[q] = 0 /\ sparql[q] = "idle"
  /\ pc # "start" => \A q \in SparqlQueries : issued[q] = 1 /\ sparql[q] # "idle"

\* a Wikipedia request is outstanding while SPARQL requests still are: one query
\* failed, main went on, and the other three have not been answered
C3_Witness ==
  /\ wikiPending = 1
  /\ Cardinality({q \in SparqlQueries : sparql[q] = "pending"}) = 3
  /\ \A q \in SparqlQueries : issued[q] = 1

----------------------------------------------------------------------------
(* Property of generateConclusions (checked under SpecConclusions) *)

RuleOrder == <<"change", "density", "age", "youth", "elderly", "education", "county", "size">>

RuleIndex(rule) == CHOOSE k \in 1..Len(RuleOrder) : RuleOrder[k] = rule

\* C4: the returned array has at most 5 sentences; the sentences pushed by the
\* rules come in the fixed rule order, one per rule at most; the result is their
\* first min(5, n); so a pushed sentence is returned exactly when fewer than five
\* sentences were pushed before it.
C4_FirstFiveInRuleOrder ==
  gcResult # Null =>
    LET res == gcResult[1]
        all == PushedConclusions(gcArgs[1], gcArgs[1].type, zupanije)
        n == Len(all)
    IN /\ Len(res) <= 5
       /\ Len(res) = IF n < 5 THEN n ELSE 5
       /\ \A k \in 1..Len(res) : res[k] = all[k]
       /\ \A k \in 1..(n - 1) : RuleIndex(all[k].rule) < RuleIndex(all[k + 1].rule)
       /\ \A k \in 1..n : (\E j \in 1..Len(res) : res[j] = all[k]) <=> k <= 5

\* all eight rules pushed a sentence and five came back, the last one being the
\* sentence of the elderly share
C4_Witness ==
  /\ gcResult # Null
  /\ Len(PushedConclusions(gcArgs[1], gcArgs[1].type, zupanije)) = 8
  /\ Len(gcResult[1]) = 5
  /\ gcResult[1][5].rule = "elderly"

----------------------------------------------------------------------------
(* Property of generate-search-index (checked under SpecIndex) *)

\* C5: search-index.json has one entry per record, counties first, then cities,
\* then municipalities, each with the record's name, slug and population_2021 and
\* the type of its table, and county '' for a county; locations-compare.json has
\* one entry per city and per municipality, cities first, and none for a county.
C5_OneEntryPerRecordInTableOrder ==
  LET nz == Len(zupanije)
      ng == Len(gradovi)
      no == Len(opcine)
  IN /\ Len(written) >= 1 =>
          LET idx == written[1].content
          IN /\ written[1].file = "public/search-index.json"
             /\ Len(idx) = nz + ng + no
             /\ \A k \in 1..nz :
                  idx[k] = << <<"name", zupanije[k].name>>, <<"slug", zupanije[k].slug>>,
                              <<"type", "zupanija">>, <<"county", <<>> >>,
                              <<"pop", zupanije[k].population_2021>> >>
             /\ \A k \in 1..ng :
                  /\ idx[nz + k][1] = <<"name", gradovi[k].name>>
                  /\ idx[nz + k][2] = <<"slug", gradovi[k].slug>>
                  /\ idx[nz + k][3] = <<"type", "grad">>
                  /\ idx[nz + k][5] = <<"pop", gradovi[k].population_2021>>
             /\ \A k \in 1..no :
                  /\ idx[nz + ng + k][1] = <<"name", opcine[k].name>>
                  /\ idx[nz + ng + k][2] = <<"slug", opcine[k].slug>>
                  /\ idx[nz + ng + k][3] = <<"type", "opcina">>
                  /\ idx[nz + ng + k][5] = <<"pop", opcine[k].population_2021>>
     /\ Len(written) = 2 =>
          LET cmp == written[2].content
          IN /\ written[2].file = "public/locations-compare.json"
             /\ Len(cmp) = ng + no
             /\ \A k \in 1..ng :
                  /\ cmp[k][1] = <<"name", gradovi[k].name>>
                  /\ cmp[k][2] = <<"slug", gradovi[k].slug>>
             /\ \A k \in 1..no :
                  /\ cmp[ng + k][1] = <<"name", opcine[k].name>>
                  /\ cmp[ng + k][2] = <<"slug", opcine[k].slug>>
             /\ \A k \in 1..Len(cmp) : cmp[k][3] \in {<<"type", "grad">>, <<"type", "opcina">>}

\* both files are written from two counties, two cities and a municipality
C5_Witness ==
  /\ Len(written) = 2
  /\ Len(zupanije) = 2 /\ Len(gradovi) = 2 /\ Len(opcine) = 1
  /\ gradovi[1] # gradovi[2]
  /\ Len(written[1].content) = 5
  /\ Len(written[2].content) = 3
  /\ written[1].content[5][3] = <<"type", "opcina">>

====
